---- MODULE Spec2Model ----
(***************************************************************************)
(* Model of server/services/gmail-pull.py: the batch run pull_and_write,   *)
(* the deep-fill and append-dedupe merges, the message archive and the     *)
(* text extractors.                                                        *)
(*                                                                         *)
(* JSON values are tagged records [t, v]:                                  *)
(*   null  [t |-> "null", v |-> 0]                                         *)
(*   str   [t |-> "str",  v |-> a string]                                  *)
(*   num   [t |-> "num",  v |-> a decimal [neg, ip, fr]]                   *)
(*   list  [t |-> "list", v |-> a sequence of JSON values]                 *)
(*   dict  [t |-> "dict", v |-> a function from keys to JSON values]       *)
(* A decimal [neg, ip, fr] is the number (-1)^neg * ip.fr, fr the digits   *)
(* after the point without trailing zeros: Python's int and float compare  *)
(* by value (0 == 0.0), and so do these.                                   *)
(***************************************************************************)
EXTENDS Integers, Sequences, FiniteSets, TLC

VARIABLES
    pc,                  \* where pull_and_write stands, or how its last run ended
    runs,                \* the runs started so far
    now,                 \* datetime.now(): [day, sec]
    store,               \* DATA_DIR: the five structured documents, by file name
    inbox,               \* DATA_DIR/inbox: the archive documents, by file name
    msgs,                \* the retrieved messages of the run
    at,                  \* the index of the next message of the loop
    ceo_scoreboard,
    collected_actions,
    collected_meetings,
    collected_insights,
    collected_decisions,
    err,                 \* the exception that ended the run, "" if none
    io,                  \* the file operations of the run so far, in order
    store0,              \* store as the run found it
    inbox0,              \* inbox as the run found it
    extracted,           \* Iteration(m, t) of every message m and clock reading t
    fill_pc, fill_dst, fill_src, fill_out, fill_out2,
    call,                \* a function applied on its own: "in" before, "out" after
    arg,                 \* its name and argument, [f, x]
    ret                  \* what it returned

fillvars == <<fill_pc, fill_dst, fill_src, fill_out, fill_out2, call, arg, ret>>

locals == <<msgs, at, ceo_scoreboard, collected_actions, collected_meetings,
            collected_insights, collected_decisions>>

runvars == <<pc, runs, now, store, inbox, msgs, at, ceo_scoreboard, collected_actions,
             collected_meetings, collected_insights, collected_decisions, err, io,
             store0, inbox0, extracted>>

vars == <<runvars, fillvars>>

\* ------------------------------------------------------------ JSON values

Dec(n) == [neg |-> n < 0, ip |-> IF n < 0 THEN 0 - n ELSE n, fr |-> ""]

JNull == [t |-> "null", v |-> 0]

JStr(s) == [t |-> "str", v |-> s]

JNum(d) == [t |-> "num", v |-> d]

JInt(n) == JNum(Dec(n))

JList(q) == [t |-> "list", v |-> q]

JDict(f) == [t |-> "dict", v |-> f]

EmptyDict == JDict(<<>>)

EmptyList == JList(<<>>)

DecIsZero(d) == d.ip = 0 /\ d.fr = ""

\* x in (None, "", 0, 0.0)
IsDefault(x) ==
    \/ x.t = "null"
    \/ x.t = "str" /\ x.v = ""
    \/ x.t = "num" /\ DecIsZero(x.v)

\* Python truthiness of a JSON value (`dst if dst else src`)
Truthy(x) ==
    CASE x.t = "null" -> FALSE
      [] x.t = "str" -> x.v # ""
      [] x.t = "num" -> ~DecIsZero(x.v)
      [] x.t = "list" -> x.v # <<>>
      [] x.t = "dict" -> DOMAIN x.v # {}

\* ------------------------------------------------------------ strings

Min(S) == CHOOSE x \in S : \A y \in S : x <= y

Max(S) == CHOOSE x \in S : \A y \in S : x >= y

\* the least element of S, d when S is empty
MinOr(S, d) == IF S = {} THEN d ELSE Min(S)

\* the greatest element of S, d when S is empty
MaxOr(S, d) == IF S = {} THEN d ELSE Max(S)

\* s[i-1:j] of Python, i and j counted from 1: out-of-range indexes are clamped
Slice(s, i, j) ==
    IF (IF i < 1 THEN 1 ELSE i) > (IF j > Len(s) THEN Len(s) ELSE j) THEN SubSeq(s, 1, 0)
    ELSE SubSeq(s, IF i < 1 THEN 1 ELSE i, IF j > Len(s) THEN Len(s) ELSE j)

\* the character s[i], "" outside the string
Ch(s, i) == Slice(s, i, i)

\* s[i:] with i counted from 1
From(s, i) == Slice(s, i, Len(s))

\* the characters \s matches and str.strip() removes
Whitespace == {" ", "\t", "\n", "\r", "\f"}

DigitChars == {"0", "1", "2", "3", "4", "5", "6", "7", "8", "9"}

DigitVal(c) ==
    CASE c = "0" -> 0 [] c = "1" -> 1 [] c = "2" -> 2 [] c = "3" -> 3
      [] c = "4" -> 4 [] c = "5" -> 5 [] c = "6" -> 6 [] c = "7" -> 7
      [] c = "8" -> 8 [] c = "9" -> 9

DigitChar(n) == Ch("0123456789", n + 1)

UpperChars == "ABCDEFGHIJKLMNOPQRSTUVWXYZ"

LowerChars == "abcdefghijklmnopqrstuvwxyz"

LowerCh(c) ==
    LET At(i) == IF i = 0 THEN c ELSE Ch(LowerChars, i)
    IN  At(MinOr({i \in 1..Len(UpperChars) : Ch(UpperChars, i) = c}, 0))

IsAlnum(c) ==
    \/ c \in DigitChars
    \/ \E i \in 1..Len(UpperChars) : c = Ch(UpperChars, i) \/ c = Ch(LowerChars, i)

RECURSIVE Lower(_)
\* str.lower()
Lower(s) == IF s = "" THEN "" ELSE LowerCh(Ch(s, 1)) \o Lower(From(s, 2))

\* the least i >= from with hay[i..] starting with needle, 0 if there is none
IndexFrom(hay, needle, from) ==
    MinOr({i \in from..(Len(hay) - Len(needle) + 1) :
             Slice(hay, i, i + Len(needle) - 1) = needle}, 0)

\* needle in hay
Contains(hay, needle) == IndexFrom(hay, needle, 1) # 0

\* the last index of the run of characters of set C that starts at i (i - 1 if empty)
RunEnd(s, i, C) == MinOr({j \in i..Len(s) : Ch(s, j) \notin C}, Len(s) + 1) - 1

\* s from the least to the greatest index of K, "" when K is empty
Span(s, K) == IF K = {} THEN "" ELSE Slice(s, Min(K), Max(K))

\* str.strip()
strip(s) == Span(s, {i \in 1..Len(s) : Ch(s, i) \notin Whitespace})

\* str.strip(chars)
StripChars(s, C) == Span(s, {i \in 1..Len(s) : Ch(s, i) \notin C})

\* str.rstrip(chars)
RStripChars(s, C) == Slice(s, 1, MaxOr({i \in 1..Len(s) : Ch(s, i) \notin C}, 0))

RECURSIVE Without(_, _)
\* s with every character of C removed
Without(s, C) ==
    IF s = "" THEN ""
    ELSE (IF Ch(s, 1) \in C THEN "" ELSE Ch(s, 1)) \o Without(From(s, 2), C)

RECURSIVE Replace(_, _, _)
\* str.replace(old, new), old not empty
Replace(s, old, new) ==
    LET At(i) == IF i = 0 THEN s
                 ELSE Slice(s, 1, i - 1) \o new \o Replace(From(s, i + Len(old)), old, new)
    IN  At(IndexFrom(s, old, 1))

RECURSIVE splitlines(_)
\* str.splitlines(): lines end at \n, \r or \r\n; no empty last line
splitlines(s) ==
    LET \* the index after the line break at i: "\r\n" is one break
        After(i) == IF Ch(s, i) = "\r" /\ Ch(s, i + 1) = "\n" THEN i + 2 ELSE i + 1
        At(i) == IF i = 0 THEN <<s>>
                 ELSE <<Slice(s, 1, i - 1)>> \o splitlines(From(s, After(i)))
    IN  IF s = "" THEN <<>>
        ELSE At(MinOr({i \in 1..Len(s) : Ch(s, i) \in {"\n", "\r"}}, 0))

RECURSIVE ToNat(_)
\* int() of a string of digits
ToNat(s) == IF s = "" THEN 0 ELSE ToNat(Slice(s, 1, Len(s) - 1)) * 10 + DigitVal(Ch(s, Len(s)))

RECURSIVE NatStr(_)
\* str() of a natural number
NatStr(n) == IF n < 10 THEN DigitChar(n) ELSE NatStr(n \div 10) \o DigitChar(n % 10)

\* float() of sign, digits and fraction digits: -0.0 equals 0
MkDec(neg, digits, frac) ==
    LET Value(ip, fr) == [neg |-> neg /\ ~(ip = 0 /\ fr = ""), ip |-> ip, fr |-> fr]
    IN  Value(ToNat(digits), RStripChars(frac, {"0"}))

Zero == Dec(0)

\* int(x) of a decimal: truncation toward zero
DecInt(d) == IF d.neg THEN 0 - d.ip ELSE d.ip

DecAny(d, n) == TRUE

\* d >= n for a natural number n >= 1
DecGeq(d, n) == ~d.neg /\ d.ip >= n

\* str(float): repr of a float value, "19.0", "-2.5"
FloatStr(d) ==
    (IF d.neg THEN "-" ELSE "") \o NatStr(d.ip) \o "." \o (IF d.fr = "" THEN "0" ELSE d.fr)

\* ------------------------------------------------------------ primitives

\* the end of the fraction (?:\.[0-9]+)? that may follow s[e]: e when there is none
FracEnd(s, e) ==
    IF Ch(s, e + 1) = "." /\ Ch(s, e + 2) \in DigitChars
    THEN RunEnd(s, e + 2, DigitChars) ELSE e

\* the number that starts at the digit s[i]: [0-9][0-9,]*(?:\.\d+)? when frac,
\* [0-9][0-9,]* otherwise
NumberAt(s, i, frac) ==
    LET \* the digits and commas end at e
        To(e) == MkDec(FALSE, Without(Slice(s, i, e), {","}),
                       Slice(s, e + 2, IF frac THEN FracEnd(s, e) ELSE e))
    IN  To(RunEnd(s, i, DigitChars \cup {","}))

FirstDigit(s) == MinOr({i \in 1..Len(s) : Ch(s, i) \in DigitChars}, 0)

_money(s) ==
    LET At(i) == IF i = 0 THEN Zero ELSE NumberAt(s, i, TRUE)
    IN  At(FirstDigit(s))

\* ([+-]?\d+(?:\.\d+)?)\s*% tried at the start i
PercentAt(s, i) ==
    LET \* the digits are s[d..e], the fraction ends at f
        Of(d, e, f) ==
            [ok  |-> e >= d /\ Ch(s, RunEnd(s, f + 1, Whitespace) + 1) = "%",
             val |-> MkDec(Ch(s, i) = "-", Slice(s, d, e), Slice(s, e + 2, f))]
        To(d, e) == Of(d, e, FracEnd(s, e))
        From1(d) == To(d, RunEnd(s, d, DigitChars))
    IN  From1(IF Ch(s, i) \in {"+", "-"} THEN i + 1 ELSE i)

_percent(s) ==
    LET At(i) == IF i = 0 THEN Zero ELSE PercentAt(s, i).val
    IN  At(MinOr({i \in 1..Len(s) : PercentAt(s, i).ok}, 0))

_int(s) ==
    LET At(i) == IF i = 0 THEN 0 ELSE NumberAt(s, i, FALSE).ip
    IN  At(FirstDigit(s))

\* all(k.lower() in L.lower() for k in keywords)
HasAll(L, keywords) == \A k \in keywords : Contains(Lower(L), Lower(k))

\* the first line containing all keywords (case-insensitive), stripped
_find_line(text, keywords) ==
    LET At(ls, i) == IF i = 0 THEN "" ELSE ls[i]
        First(ls) == At(ls, MinOr({i \in 1..Len(ls) : HasAll(ls[i], keywords)}, 0))
        Stripped(ls) == First([i \in 1..Len(ls) |-> strip(ls[i])])
    IN  Stripped(splitlines(text))

\* the substring after the first occurrence of label (case-insensitive)
_extract_after(text, label) ==
    LET At(i) == IF i = 0 THEN "" ELSE strip(From(text, i + Len(label)))
    IN  At(IndexFrom(Lower(text), Lower(label), 1))

QuoteChars == {"\"", "'"}

\* ["']([^"']{2,})["'] tried at the start i
QuotedAt(s, i) ==
    LET \* the closing quote is at c (0: none)
        To(c) == [ok |-> Ch(s, i) \in QuoteChars /\ c >= i + 3, val |-> Slice(s, i + 1, c - 1)]
    IN  To(MinOr({j \in (i + 1)..Len(s) : Ch(s, j) \in QuoteChars}, 0))

_quoted(text) ==
    LET At(i) == IF i = 0 THEN "" ELSE strip(QuotedAt(text, i).val)
    IN  At(MinOr({i \in 1..Len(text) : QuotedAt(text, i).ok}, 0))

\* ------------------------------------------------------------ clock

(***************************************************************************)
(* A reading of datetime.now() is [day, sec]: a day and a second of that   *)
(* day.  The functions that call datetime.now() take the reading as their  *)
(* parameter clock.                                                        *)
(***************************************************************************)

\* date().isoformat()
DateStr(day) == "day" \o NatStr(day)

\* strftime("%Y%m%dT%H%M%SZ"), strftime("%Y-%m-%dT%H:%M:%SZ"), isoformat():
\* the date and the time to the second
StampStr(t) == DateStr(t.day) \o "T" \o NatStr(t.sec) \o "Z"

\* ------------------------------------------------------------ map_ceo_to_scoreboard

\* a mapper that raised: ValueError of float(""), IndexError of [][0]
Raise(e) == [t |-> "raise", v |-> e]

\* the index after the whitespace that starts at i
SkipWs(s, i) == RunEnd(s, i, Whitespace) + 1

\* s[i..] starts with the lowercase word w, whatever the case
StartsAt(s, i, w) == Lower(Slice(s, i, i + Len(w) - 1)) = w

\* Net\s*New\s*MRR[:\s]+\$?\s*([0-9,]+) tried at the start i: the span of group 1
MrrAt(s, i) ==
    LET \* "New" at b, "MRR" at c, separators up to e, digits s[h..k]
        Of(b, c, e, h, k) ==
            [ok |-> /\ StartsAt(s, i, "net") /\ StartsAt(s, b, "new") /\ StartsAt(s, c, "mrr")
                    /\ e >= c + 3 /\ k >= h,
             lo |-> h, hi |-> k]
        Digits(b, c, e, h) == Of(b, c, e, h, RunEnd(s, h, DigitChars \cup {","}))
        Dollar(b, c, e) ==
            Digits(b, c, e, SkipWs(s, IF Ch(s, e + 1) = "$" THEN e + 2 ELSE e + 1))
        Sep(b, c) == Dollar(b, c, RunEnd(s, c + 3, Whitespace \cup {":"}))
        New(b) == Sep(b, SkipWs(s, b + 3))
    IN  New(SkipWs(s, i + 3))

\* target[^$]*\$?\s*([0-9,]+) tried at the "target" that starts at t: group 2.
\* [^$]* is greedy: it runs to the next "$" when a number follows that "$",
\* and otherwise to the last digit or comma before it.
TargetAt(s, t) ==
    LET \* [^$]* ends at pe, the digits after the "$" are s[h..k], d is the last
        \* digit or comma of s[t+6..pe] (0: none)
        Of(pe, h, k, d) ==
            IF pe < Len(s) /\ k >= h THEN [ok |-> TRUE, val |-> Slice(s, h, k)]
            ELSE IF d # 0 THEN [ok |-> TRUE, val |-> Ch(s, d)]
            ELSE [ok |-> FALSE, val |-> ""]
        Digits(pe, h) ==
            Of(pe, h, RunEnd(s, h, DigitChars \cup {","}),
               MaxOr({j \in (t + 6)..pe : Ch(s, j) \in DigitChars \cup {","}}, 0))
        Dollar(pe) == Digits(pe, SkipWs(s, pe + 2))
    IN  Dollar(RunEnd(s, t + 6, {Ch(s, j) : j \in 1..Len(s)} \ {"$"}))

\* (?:.*?target[^$]*\$?\s*([0-9,]+))? from the index from: group 2, or none
TargetFrom(s, from) ==
    LET At(t) == IF t = 0 THEN [ok |-> FALSE, val |-> ""] ELSE TargetAt(s, t)
    IN  At(MinOr({t \in from..Len(s) : StartsAt(s, t, "target") /\ TargetAt(s, t).ok}, 0))

\* mttr[:\s]+([0-9]+(?:\.[0-9]+)?)\s*m tried at the start i
MttrAt(s, i) ==
    LET \* separators up to e, digits up to k, the fraction up to f
        Of(e, k, f) ==
            [ok |-> /\ StartsAt(s, i, "mttr") /\ e >= i + 4 /\ k >= e + 1
                    /\ StartsAt(s, SkipWs(s, f + 1), "m"),
             val |-> MkDec(FALSE, Slice(s, e + 1, k), Slice(s, k + 2, f))]
        Frac(e, k) == Of(e, k, FracEnd(s, k))
        Digits(e) == Frac(e, RunEnd(s, e + 1, DigitChars))
    IN  Digits(RunEnd(s, i + 4, Whitespace \cup {":"}))

\* ([0-9]+)\s*h tried at the start i
HoursAt(s, i) ==
    LET To(k) == [ok |-> k >= i /\ StartsAt(s, SkipWs(s, k + 1), "h"),
                  val |-> ToNat(Slice(s, i, k))]
    IN  To(RunEnd(s, i, DigitChars))

\* the default scoreboard of lines 164-172
ScoreboardDefaults(date) ==
    JDict([date |-> JStr(date),
           revenue |-> JDict([realized_week |-> JInt(0), target_week |-> JInt(0),
                              upsells |-> JInt(0)]),
           initiatives |-> JDict([on_time_pct |-> JInt(0), risk_inverted |-> JInt(0),
                                  resource_ok_pct |-> JInt(0),
                                  dependency_clear_pct |-> JInt(0)]),
           alignment |-> JDict([work_tied_to_objectives_pct |-> JInt(0)]),
           autonomy |-> JDict([auto_resolve_pct |-> JInt(0), mttr_min |-> JInt(0)]),
           risk |-> JDict([score |-> JInt(0), high |-> JInt(0), medium |-> JInt(0),
                           next_deadline_hours |-> JInt(0)]),
           narrative |-> JDict([topic |-> JStr(""), linkedin_er_delta_pct |-> JInt(0),
                                email_ctr_delta_pct |-> JInt(0),
                                quiz_to_paid_delta_pct |-> JInt(0),
                                conversions |-> JInt(0)])])

\* out[group][field] = value
SetField(out, group, field, value) ==
    JDict([out.v EXCEPT ![group] = JDict([out.v[group].v EXCEPT ![field] = value])])

\* the arrow U+2192 of the texts, written in ASCII
Arrow == "=>"

\* the topic of lines 214-215, not ok when [][0] raises IndexError
TopicOf(lines) ==
    LET \* `q or x.splitlines()[0].strip()`
        Of(q, x) ==
            IF q # "" THEN [ok |-> TRUE, val |-> q]
            ELSE IF x = "" THEN [ok |-> FALSE, val |-> ""]
            ELSE [ok |-> TRUE, val |-> strip(splitlines(x)[1])]
        On(L) == Of(_quoted(L), _extract_after(IF L # "" THEN L ELSE lines, "Top theme:"))
    IN  On(_find_line(lines, {"top theme"}))

\* lines 182-183: if L: out[group][field] = _money(L)
SetMoney(out, group, field, L) ==
    IF L # "" THEN SetField(out, group, field, JNum(_money(L))) ELSE out

\* lines 186-187, 194-203: if L: out[group][field] = _percent(L)
SetPercent(out, group, field, L) ==
    IF L # "" THEN SetField(out, group, field, JNum(_percent(L))) ELSE out

\* lines 223-226, 232-233: if L: out["risk"][field] = max(out["risk"][field], _int(L))
SetRisk(out, field, L) ==
    IF L # "" THEN SetField(out, "risk", field, JInt(IF _int(L) > 0 THEN _int(L) ELSE 0)) ELSE out

\* lines 175-179: float("") raises ValueError when a group holds only commas
SetRevenue(out, lines) ==
    LET \* group 1 and group 2 without commas; tg tells whether group 2 matched
        Of(g1, tg, g2) ==
            IF g1 = "" \/ (tg.ok /\ g2 = "") THEN Raise("ValueError")
            ELSE SetField(SetField(out, "revenue", "realized_week", JInt(ToNat(g1))),
                          "revenue", "target_week", IF tg.ok THEN JInt(ToNat(g2)) ELSE JInt(0))
        Target(g1, tg) == Of(g1, tg, Without(tg.val, {","}))
        Match(m) == Target(Without(Slice(lines, m.lo, m.hi), {","}),
                           TargetFrom(lines, m.hi + 1))
        At(i) == IF i = 0 THEN out ELSE Match(MrrAt(lines, i))
    IN  At(MinOr({i \in 1..Len(lines) : MrrAt(lines, i).ok}, 0))

\* lines 190-191
SetMttr(out, lines) ==
    LET At(i) == IF i = 0 THEN out
                 ELSE SetField(out, "autonomy", "mttr_min", JNum(MttrAt(lines, i).val))
    IN  At(MinOr({i \in 1..Len(lines) : MttrAt(lines, i).ok}, 0))

\* the line of the conversions: L, or the first line with "paid" when L is empty
PaidLine(lines, L) == IF L # "" THEN L ELSE _find_line(lines, {"paid"})

\* lines 206-210
SetConversions(out, lines) ==
    LET Of(n) == IF n # 0 THEN SetField(out, "narrative", "conversions", JInt(n)) ELSE out
        On(L) == IF L # "" THEN Of(_int(L)) ELSE out
    IN  On(PaidLine(lines, _find_line(lines, {"conversion"})))

\* lines 213-220: [][0] raises IndexError when there is no topic text
SetTopic(out, lines) ==
    LET Of(tp) ==
            IF ~tp.ok THEN Raise("IndexError")
            ELSE IF tp.val # ""
            THEN SetField(out, "narrative", "topic", JStr(StripChars(tp.val, {" ", "."})))
            ELSE out
    IN  Of(TopicOf(lines))

\* lines 227-230
SetDeadline(out, L) ==
    LET At(i) == IF i = 0 THEN out
                 ELSE SetField(out, "risk", "next_deadline_hours", JInt(HoursAt(L, i).val))
    IN  At(MinOr({i \in 1..Len(L) : HoursAt(L, i).ok}, 0))

\* lines 181-210, unless the revenue block raised
CeoMetrics(out, lines) ==
    IF out.t = "raise" THEN out
    ELSE SetConversions(
           SetPercent(
             SetPercent(
               SetPercent(
                 SetMttr(
                   SetPercent(
                     SetMoney(out, "revenue", "upsells", _find_line(lines, {"upsell"})),
                     "autonomy", "auto_resolve_pct", _find_line(lines, {"autonomy"})),
                   lines),
                 "narrative", "quiz_to_paid_delta_pct", _find_line(lines, {"quiz", "paid"})),
               "narrative", "linkedin_er_delta_pct", _find_line(lines, {"linkedin", "er"})),
             "narrative", "email_ctr_delta_pct", _find_line(lines, {"email", "ctr"})),
           lines)

\* lines 212-220, unless an earlier block raised
CeoTopic(out, lines) == IF out.t = "raise" THEN out ELSE SetTopic(out, lines)

\* lines 222-233, unless an earlier block raised
CeoRisk(out, lines) ==
    IF out.t = "raise" THEN out
    ELSE SetRisk(
           SetDeadline(
             SetRisk(
               SetRisk(out, "high", _find_line(lines, {"high"})),
               "medium", _find_line(lines, {"medium"})),
             _find_line(lines, {"deadline"})),
           "score", _find_line(lines, {"risk", "score"}))

\* the mapping of the text whose arrows are normalised, lines 164-235
CeoFields(lines, clock) ==
    CeoRisk(CeoTopic(CeoMetrics(SetRevenue(ScoreboardDefaults(DateStr(clock.day)), lines),
                                lines), lines), lines)

map_ceo_to_scoreboard(text, clock) == CeoFields(Replace(text, Arrow, "->"), clock)

\* ------------------------------------------------------------ map_content_to_actions

ActionItem(title, owner, eta_days, reason) ==
    JDict([title |-> JStr(title), owner |-> JStr(owner), eta_days |-> JInt(eta_days),
           reason |-> JStr(reason)])

\* re.search(r"\bVS\b", s, re.I)
HasWordVS(s) ==
    \E i \in 1..(Len(s) - 1) :
        /\ StartsAt(s, i, "vs")
        /\ i = 1 \/ ~(IsAlnum(Ch(s, i - 1)) \/ Ch(s, i - 1) = "_")
        /\ i + 2 > Len(s) \/ ~(IsAlnum(Ch(s, i + 2)) \/ Ch(s, i + 2) = "_")

\* re.search(r"paid\s*[:=]\s*[1-9]", s, re.I)
HasPaidCount(s) ==
    LET Sep(c) == Ch(s, c) \in {":", "="} /\ Ch(s, SkipWs(s, c + 1)) \in DigitChars \ {"0"}
    IN  \E i \in 1..Len(s) : StartsAt(s, i, "paid") /\ Sep(SkipWs(s, i + 4))

\* where ^ matches under re.M
LineStarts(s) == {i \in 1..Len(s) : i = 1 \/ Ch(s, i - 1) = "\n"}

\* ^\s*Action[:\-]\s*(.+)$ tried at the line start st: group 1 and where it ends.
\* \s* crosses line ends; when only whitespace follows the label, the greedy \s*
\* gives back the last character that is not a newline.
ActionAt(s, st) ==
    LET \* the label starts at p, the group is s[g..e] (g = 0: no group)
        Of(p, g, e) ==
            [ok  |-> StartsAt(s, p, "action") /\ Ch(s, p + 6) \in {":", "-"} /\ g # 0,
             val |-> Slice(s, g, e),
             end |-> e]
        \* the group runs to the end of its line
        Group(p, g) == Of(p, g, MinOr({j \in g..Len(s) : Ch(s, j) = "\n"}, Len(s) + 1) - 1)
        \* q is the index after the whitespace that follows the label
        Text(p, q) ==
            Group(p, IF q <= Len(s) THEN q
                     ELSE MaxOr({k \in (p + 7)..Len(s) : Ch(s, k) # "\n"}, 0))
        Label(p) == Text(p, SkipWs(s, p + 7))
    IN  Label(SkipWs(s, st))

RECURSIVE ActionGroups(_, _)
\* re.finditer of the Action pattern from the index pos: the groups, in order
ActionGroups(s, pos) ==
    LET From1(m) == <<m.val>> \o ActionGroups(s, m.end + 1)
        At(st) == IF st = 0 THEN <<>> ELSE From1(ActionAt(s, st))
    IN  At(MinOr({st \in LineStarts(s) : st >= pos /\ ActionAt(s, st).ok}, 0))

TitleMax == 100

LinkedInLift == 10

EmailLift == 8

SummaryMax == 3

\* the lists actions and meeting_summary with more items appended
Add(acc, items, notes) ==
    [actions |-> acc.actions \o items, summary |-> acc.summary \o notes]

\* lines 253-263, L the line of the top piece
TopPiece(acc, L) ==
    LET Titled(title) ==
            IF L # "" /\ title # ""
            THEN Add(acc, <<ActionItem("Amplify Top Piece: " \o title, "CMO", 2,
                                       "Top-performing piece in Content Digest")>>,
                     <<JStr("Top piece: " \o title)>>)
            ELSE acc
        Quoted(qt) == Titled(IF qt # "" THEN qt ELSE strip(_extract_after(L, "Top Piece:")))
    IN  Quoted(_quoted(L))

\* lines 266-270
PaidCount(acc, lines) ==
    LET Of(paid) ==
            IF paid # 0 THEN Add(acc, <<>>, <<JStr("Paid from content: " \o NatStr(paid))>>)
            ELSE acc
        On(L) == Of(IF L # "" THEN _int(L) ELSE 0)
    IN  On(PaidLine(lines, _find_line(lines, {"conversion"})))

\* lines 273-276, rev_line the line of the influenced revenue
Influenced(acc, rev_line) ==
    LET Of(influenced) ==
            IF ~DecIsZero(influenced)
            THEN Add(acc, <<>>, <<JStr("Influenced revenue: $" \o NatStr(DecInt(influenced)))>>)
            ELSE acc
    IN  Of(IF rev_line # "" THEN _money(rev_line) ELSE Zero)

\* lines 279-296
Persona(acc, persona_line, lines) ==
    LET VS(a) ==
            IF persona_line # "" /\ HasWordVS(persona_line)
            THEN Add(a, <<ActionItem("Prioritize VS persona content for 72h", "Content", 3,
                                     "Persona signal favors VS in Content Digest")>>,
                     <<JStr("Persona winner: VS")>>)
            ELSE a
        Architect(a) ==
            IF /\ persona_line # ""
               /\ Contains(Lower(persona_line), "architect")
               /\ ~HasPaidCount(lines)
            THEN Add(a, <<ActionItem("Draft Architect brief (fast-track)", "Content", 3,
                                     "Architect lagging; fast-track brief to close gap")>>,
                     <<JStr("Architect gap detected")>>)
            ELSE a
    IN  Architect(VS(acc))

\* lines 299-306, gs the groups of the Action lines
ActionLines(acc, gs) ==
    Add(acc, [i \in 1..Len(gs) |->
                ActionItem(Slice(RStripChars(strip(gs[i]), {"."}), 1, TitleMax), "CMO", 2,
                           "Action captured from Content Digest")],
        <<>>)

\* lines 309-328: a channel lift of at least floor percent on the line L
Lift(acc, L, floor, title, eta_days, channel) ==
    LET Of(p) ==
            IF L # "" /\ DecGeq(p, floor)
            THEN Add(acc, <<ActionItem(title, "CMO", eta_days,
                                       channel \o " lift " \o FloatStr(p) \o "% in digest")>>,
                     <<JStr(channel \o " " \o NatStr(DecInt(p)) \o "%")>>)
            ELSE acc
    IN  Of(_percent(L))

\* lines 330-340
ContentResult(acc, clock) ==
    [actions  |-> acc.actions,
     meetings |->
        IF acc.summary # <<>>
        THEN <<JDict([title |-> JStr("Content Digest"), date |-> JStr(StampStr(clock)),
                      summary |-> JList(Slice(acc.summary, 1, SummaryMax)),
                      actions |-> EmptyList])>>
        ELSE <<>>]

\* lines 249-328: the actions and the meeting summary
ContentSignals(lines) ==
    Lift(
      Lift(
        ActionLines(
          Persona(
            Influenced(
              PaidCount(
                TopPiece([actions |-> <<>>, summary |-> <<>>],
                         _find_line(lines, {"top piece"})),
                lines),
              _find_line(lines, {"influenced"})),
            _find_line(lines, {"persona"}), lines),
          ActionGroups(lines, 1)),
        _find_line(lines, {"linkedin", "er"}), LinkedInLift,
        "Double LinkedIn cadence for 72h (winning theme)", 3, "LinkedIn ER"),
      _find_line(lines, {"email", "ctr"}), EmailLift,
      "Extend winning email subject to VS segment", 2, "Email CTR")

map_content_to_actions(text, clock) == ContentResult(ContentSignals(text), clock)

\* ------------------------------------------------------------ map_operational_to_insights

\* Bottleneck[:\s](.+?)[\r\n] tried at the start i: the lazy group 1
BottleneckAt(s, i) ==
    LET \* the group ends before the line end at k (0: no line end)
        To(k) ==
            [ok  |-> /\ StartsAt(s, i, "bottleneck")
                     /\ Ch(s, i + 10) \in Whitespace \cup {":"}
                     /\ i + 11 <= Len(s) /\ Ch(s, i + 11) # "\n"
                     /\ k # 0,
             val |-> IF k = 0 THEN "" ELSE Slice(s, i + 11, k - 1)]
    IN  To(MinOr({k \in (i + 12)..Len(s) : Ch(s, k) \in {"\r", "\n"}}, 0))

DueDays == 3

map_operational_to_insights(text, clock) ==
    LET \* lines 353-366 for the bottleneck b
        Of(b) ==
            [insights |->
                <<JDict([type |-> JStr("operational_risk"),
                         insight |-> JStr("Process bottleneck identified: " \o b),
                         confidence |-> JNum([neg |-> FALSE, ip |-> 0, fr |-> "8"]),
                         source |-> JStr("operational_email"),
                         timestamp |-> JStr(StampStr(clock))])>>,
             decisions |->
                <<JDict([decision |-> JStr("Resolve bottleneck: " \o b),
                         impact |-> JStr("high"),
                         owner |-> JStr("COO"),
                         due |-> JStr(DateStr(clock.day + DueDays)),
                         rationale |-> JStr("Critical operational efficiency issue")])>>]
        At(i) == IF i = 0 THEN [insights |-> <<>>, decisions |-> <<>>]
                 ELSE Of(strip(BottleneckAt(text, i).val))
    IN  At(MinOr({i \in 1..Len(text) : BottleneckAt(text, i).ok}, 0))

\* ------------------------------------------------------------ _parse_body

(***************************************************************************)
(* A payload node is [mimeType, data, parts].  Its body data stands for    *)
(* the base64url text of body.data: [enc, bytes], enc "none" when there is *)
(* no data (or the empty string), "ok" when it decodes to bytes, "bad"     *)
(* when base64.urlsafe_b64decode raises binascii.Error (wrong length or    *)
(* padding).  bytes is a sequence of runs: ASCII text, or BadByte for a    *)
(* byte that is not valid UTF-8.                                           *)
(***************************************************************************)
BadByte == "\\xff"

NoData == [enc |-> "none", bytes |-> <<>>]

B64(bytes) == [enc |-> "ok", bytes |-> bytes]

BadB64 == [enc |-> "bad", bytes |-> <<>>]

Node(mimeType, data, parts) == [mimeType |-> mimeType, data |-> data, parts |-> parts]

RECURSIVE DecodeIgnore(_)
\* raw.decode("utf-8", "ignore"): invalid bytes are dropped
DecodeIgnore(bytes) ==
    IF bytes = <<>> THEN ""
    ELSE (IF Head(bytes) = BadByte THEN "" ELSE Head(bytes)) \o DecodeIgnore(Tail(bytes))

RECURSIVE StripTags(_)
\* the text of an HTML string: everything between "<" and ">" removed
StripTags(h) ==
    LET Tag(a, b) == IF a = 0 \/ b = 0 THEN h
                     ELSE Slice(h, 1, a - 1) \o StripTags(From(h, b + 1))
        At(a) == Tag(a, IndexFrom(h, ">", a + 1))
    IN  At(IndexFrom(h, "<", 1))

\* html2text.html2text(html): the markdown rendering ends with a blank line
html2text(h) == StripTags(h) \o "\n\n"

\* str(BeautifulSoup(raw, "html.parser")) for markup that is valid UTF-8
SoupStr(bytes) == DecodeIgnore(bytes)

\* the node's own body, lines 124-135
OwnBody(p) ==
    IF p.data.enc = "none" THEN [t |-> "none", html |-> "", text |-> ""]
    ELSE IF p.data.enc = "bad" THEN [t |-> "raise", html |-> "", text |-> ""]
    ELSE IF Contains(p.mimeType, "text/html")
    THEN [t |-> "ok", html |-> SoupStr(p.data.bytes), text |-> html2text(SoupStr(p.data.bytes))]
    ELSE IF Contains(p.mimeType, "text/plain")
    THEN [t |-> "ok", html |-> "", text |-> DecodeIgnore(p.data.bytes)]
    ELSE [t |-> "none", html |-> "", text |-> ""]

RECURSIVE walk(_)
\* the first part, in order, whose walk returns a body or raises; else the node's own
walk(p) ==
    LET First(rs) ==
            IF \E i \in 1..Len(rs) : rs[i].t # "none"
            THEN rs[Min({i \in 1..Len(rs) : rs[i].t # "none"})]
            ELSE OwnBody(p)
    IN  First([i \in 1..Len(p.parts) |-> walk(p.parts[i])])

\* `walk(payload) or {"html": "", "text": ""}`
_parse_body(payload) ==
    LET Or(r) == IF r.t = "none" THEN [t |-> "ok", html |-> "", text |-> ""] ELSE r
    IN  Or(walk(payload))

\* ------------------------------------------------------------ _headers

\* {x["name"].lower(): x["value"]}.get(key, ""): the last header of that name wins
HeaderGet(hs, key) ==
    IF \E i \in 1..Len(hs) : Lower(hs[i].name) = key
    THEN hs[Max({i \in 1..Len(hs) : Lower(hs[i].name) = key})].value
    ELSE ""

_headers(msg) ==
    [from    |-> HeaderGet(msg.payload.headers, "from"),
     to      |-> HeaderGet(msg.payload.headers, "to"),
     subject |-> HeaderGet(msg.payload.headers, "subject"),
     date    |-> HeaderGet(msg.payload.headers, "date")]

\* ------------------------------------------------------------ _save_inbox

SubjMax == 80

BodyMax == 5000

RECURSIVE Keep(_, _)
\* "".join(c for c in s if c.isalnum() or c in extra)
Keep(s, extra) ==
    IF s = "" THEN ""
    ELSE (IF IsAlnum(Ch(s, 1)) \/ Ch(s, 1) \in extra THEN Ch(s, 1) ELSE "")
         \o Keep(From(s, 2), extra)

safe_subj(subject) ==
    Replace(strip(Slice(Keep(subject, {" ", "-", "_"}), 1, SubjMax)), " ", "_")

\* the archive file name of the document msg saved at the time clock; the subject
\* is msg.get("subject", ""), a top-level key of the document
InboxName(msg, suffix, clock) ==
    "inbox/" \o StampStr(clock) \o "_"
        \o safe_subj(IF "subject" \in DOMAIN msg.v THEN msg.v["subject"].v ELSE "")
        \o "_" \o suffix \o ".json"

\* the archive document {**record, "id": m.get("id")}
InboxDoc(m, hdr, body) ==
    JDict([headers |-> JDict([from |-> JStr(hdr.from), to |-> JStr(hdr.to),
                              subject |-> JStr(hdr.subject), date |-> JStr(hdr.date)]),
           snippet |-> JStr(m.snippet),
           body_text |-> JStr(Slice(body.text, 1, BodyMax)),
           id |-> JStr(m.id)])

\* ------------------------------------------------------------ _deep_fill

RECURSIVE _deep_fill_overwrite(_, _)
\* a last-writer-wins merge: a populated leaf is replaced by a populated new one
_deep_fill_overwrite(dst, src) ==
    IF dst.t = "dict" /\ src.t = "dict"
    THEN JDict([k \in DOMAIN dst.v \cup DOMAIN src.v |->
                  IF k \notin DOMAIN src.v THEN dst.v[k]
                  ELSE IF k \notin DOMAIN dst.v THEN src.v[k]
                  ELSE _deep_fill_overwrite(dst.v[k], src.v[k])])
    ELSE IF dst.t = "list" \/ src.t = "list"
    THEN (IF Truthy(src) THEN src ELSE dst)
    ELSE IF ~IsDefault(src) THEN src ELSE dst

RECURSIVE _deep_fill_extend(_, _)
\* a merge that concatenates list leaves instead of keeping the existing one
_deep_fill_extend(dst, src) ==
    IF dst.t = "dict" /\ src.t = "dict"
    THEN JDict([k \in DOMAIN dst.v \cup DOMAIN src.v |->
                  IF k \notin DOMAIN src.v THEN dst.v[k]
                  ELSE IF k \notin DOMAIN dst.v THEN src.v[k]
                  ELSE _deep_fill_extend(dst.v[k], src.v[k])])
    ELSE IF dst.t = "list" /\ src.t = "list"
    THEN JList(dst.v \o src.v)
    ELSE IF dst.t = "list" \/ src.t = "list"
    THEN (IF Truthy(dst) THEN dst ELSE src)
    ELSE IF IsDefault(dst) /\ ~IsDefault(src) THEN src ELSE dst

RECURSIVE _deep_fill(_, _)
_deep_fill(dst, src) ==
    IF dst.t = "dict" /\ src.t = "dict"
    THEN JDict([k \in DOMAIN dst.v \cup DOMAIN src.v |->
                  IF k \notin DOMAIN src.v THEN dst.v[k]
                  ELSE IF k \notin DOMAIN dst.v THEN src.v[k]
                  ELSE _deep_fill(dst.v[k], src.v[k])])
    ELSE IF dst.t = "list" \/ src.t = "list"
    THEN (IF Truthy(dst) THEN dst ELSE src)
    ELSE IF IsDefault(dst) /\ ~IsDefault(src) THEN src ELSE dst

\* ------------------------------------------------------------ the message provider

\* a message resource of users().messages().get(format="full")
Message(id, subject, mimeType, data, parts) ==
    [id |-> id, snippet |-> "snippet of " \o id,
     payload |-> [headers |-> <<[name |-> "From", value |-> "reports@example.com"],
                                 [name |-> "Subject", value |-> subject]>>,
                  mimeType |-> mimeType, data |-> data, parts |-> parts]]

Plain(id, subject, text) == Message(id, subject, "text/plain", B64(<<text>>), <<>>)

\* the messages the provider can return
MsgPool ==
    << Plain("m1", "CEO Summary",
             "Net New MRR: $500 (target $1000)\nAutonomy: 90%\nTop theme: \"OpenAI critique\"\nRisk: High 2 * Medium 1 * Next deadline 4h"),
       Plain("m2", "CEO Summary!",
             "Net New MRR: $700\nMTTR: 4.2m\nTop theme: Pricing."),
       Plain("m3", "Weekly Content Digest",
             "Top Piece: \"Launch post\"\nAction: Refresh landing page.\nLinkedIn ER +19%"),
       Plain("m4", "Content report",
             "Action: Refresh landing page\nAction: Refresh landing page\nPersona: VS 3x > RL"),
       Plain("m5", "Process bottleneck",
             "Bottleneck: review queue\nOwner: ops"),
       Message("m6", "Operations update", "text/plain", BadB64, <<>>),
       Message("m7", "Hello", "multipart/alternative", NoData,
               << Node("text/plain", B64(<<"Hi ", BadByte, "there">>), <<>>),
                  Node("text/html", B64(<<"<p>Hi <b>there</b></p>">>), <<>>) >>),
       Plain("m8", "Executive summary",
             "Net New MRR: $500 (target $1000)\nAutonomy: 90%\nMTTR: 4.2m") >>

MaxBatch == 2

MaxRuns == 2

MaxDay == 1

MaxSec == 1

\* the sequences of at most n elements of S
SeqsUpTo(S, n) == UNION {[1..k -> S] : k \in 0..n}

\* what _list_messages can return: distinct messages, in any order
Batches ==
    {b \in SeqsUpTo({MsgPool[k] : k \in 1..Len(MsgPool)}, MaxBatch) :
        \A j, k \in 1..Len(b) : j # k => b[j].id # b[k].id}

\* ------------------------------------------------------------ the document store

DocNames == {"scoreboard.json", "actions.json", "meetings.json", "insights.json",
             "decisions.json"}

\* a file of DATA_DIR: absent, not parseable as JSON, or a JSON value
Absent == [k |-> "absent", v |-> JNull]

Invalid == [k |-> "invalid", v |-> JNull]

File(x) == [k |-> "json", v |-> x]

\* os.path.exists, then json.load under try/except: the default unless it parses
ReadDoc(name, default) == IF store[name].k = "json" THEN store[name].v ELSE default

\* the file operations of reading name: open(path, "r") only when the path exists
ReadOps(name) == IF store[name].k = "absent" THEN <<>> ELSE <<"read " \o name>>

\* ------------------------------------------------- deep-fill on its own

MaxNum == 5

\* the leaves of the bounded records: scalars and lists
FillLeaves ==
    {JNull, JStr(""), JStr("x")} \cup {JInt(n) : n \in 0..MaxNum}
        \cup {EmptyList, JList(<<JInt(1)>>)}

\* two-level records: "a" a leaf, and "b" either a leaf or a group
FillDocs ==
    {d \in {JDict(f) : f \in UNION {[D -> FillLeaves \cup {EmptyDict}
                                               \cup {JDict([a |-> x]) : x \in FillLeaves}] :
                                        D \in SUBSET {"a", "b"}}} :
        "a" \in DOMAIN d.v => d.v["a"] \in FillLeaves}

FillIdle ==
    /\ fill_pc = "off"
    /\ fill_dst = JNull
    /\ fill_src = JNull
    /\ fill_out = JNull
    /\ fill_out2 = JNull
    /\ call = "off"
    /\ arg = JNull
    /\ ret = JNull

\* merged = _deep_fill(existing, new)
FillOnce ==
    /\ fill_pc = "in"
    /\ fill_out' = _deep_fill(fill_dst, fill_src)
    /\ fill_pc' = "once"
    /\ UNCHANGED <<fill_dst, fill_src, fill_out2, call, arg, ret>>
    /\ UNCHANGED runvars

\* the same new document merged into the result again
FillTwice ==
    /\ fill_pc = "once"
    /\ fill_out2' = _deep_fill(fill_out, fill_src)
    /\ fill_pc' = "twice"
    /\ UNCHANGED <<fill_dst, fill_src, fill_out, call, arg, ret>>
    /\ UNCHANGED runvars

\* ------------------------------------------------------------ pull_and_write

CeoTerms == {"ceo oversight", "ceo summary", "executive summary"}

ContentTerms == {"content digest", "content report", "marketing summary"}

OperationalTerms == {"operations", "workflow", "process", "bottleneck"}

\* any(term in subj for term in terms)
AllIn(subj, terms) == \A term \in terms : Contains(subj, term)

AnyIn(subj, terms) == \E term \in terms : Contains(subj, term)

\* what one iteration of `for m in msgs` (lines 397-427) computes from the message
\* m at the clock reading clock: the exception it raises ("" if none), the archive
\* file it writes, and what it adds to the accumulators
Iteration(m, clock) ==
    LET Mapped(hdr, body, isCeo, ceo, content, operational) ==
            [raise |-> IF isCeo /\ ceo.t = "raise" THEN ceo.v ELSE "",
             saved |-> TRUE,
             name |-> InboxName(InboxDoc(m, hdr, body), "msg", clock),
             doc |-> InboxDoc(m, hdr, body),
             isCeo |-> isCeo,
             ceo |-> ceo,
             actions |-> content.actions,
             meetings |-> content.meetings,
             insights |-> operational.insights,
             decisions |-> operational.decisions]
        \* lines 407-427: subj is the subject in lower case
        Classified(hdr, body, subj) ==
            Mapped(hdr, body, AnyIn(subj, CeoTerms),
                   IF AnyIn(subj, CeoTerms)
                   THEN map_ceo_to_scoreboard(body.text, clock) ELSE JNull,
                   IF AnyIn(subj, ContentTerms)
                   THEN map_content_to_actions(body.text, clock)
                   ELSE [actions |-> <<>>, meetings |-> <<>>],
                   IF AnyIn(subj, OperationalTerms)
                   THEN map_operational_to_insights(body.text, clock)
                   ELSE [insights |-> <<>>, decisions |-> <<>>])
        \* when _parse_body raised, nothing is archived or mapped
        Parsed(hdr, body) ==
            IF body.t = "raise"
            THEN [raise |-> "binascii.Error", saved |-> FALSE, name |-> "", doc |-> JNull,
                  isCeo |-> FALSE, ceo |-> JNull, actions |-> <<>>, meetings |-> <<>>,
                  insights |-> <<>>, decisions |-> <<>>]
            ELSE Classified(hdr, body, Lower(hdr.subject))
    IN  Parsed(_headers(m), _parse_body(m.payload))

\* Iteration as a table over the messages and the clock readings, computed once
Iterations ==
    [m \in {MsgPool[k] : k \in 1..Len(MsgPool)}, t \in [day : 0..MaxDay, sec : 0..MaxSec]
        |-> Iteration(m, t)]

\* how a run can have ended
RunEnded == {"returned_auth", "returned_empty", "raised", "completed"}

\* pull_and_write() is called
StartRun ==
    /\ pc \in {"idle"} \cup RunEnded
    /\ runs < MaxRuns
    /\ pc' = "auth"
    /\ runs' = runs + 1
    /\ msgs' = <<>>
    /\ at' = 0
    /\ ceo_scoreboard' = JNull
    /\ collected_actions' = <<>>
    /\ collected_meetings' = <<>>
    /\ collected_insights' = <<>>
    /\ collected_decisions' = <<>>
    /\ err' = ""
    /\ io' = <<>>
    /\ store0' = store
    /\ inbox0' = inbox
    /\ UNCHANGED <<now, store, inbox, extracted, fillvars>>

\* svc = _gmail_service()
AuthOk ==
    /\ pc = "auth"
    /\ pc' = "list"
    /\ UNCHANGED <<runs, now, store, inbox, locals, err, io, store0, inbox0, extracted, fillvars>>

\* _gmail_service() raises: the message is printed and the run returns
AuthFail ==
    /\ pc = "auth"
    /\ pc' = "returned_auth"
    /\ UNCHANGED <<runs, now, store, inbox, locals, err, io, store0, inbox0, extracted, fillvars>>

\* msgs = _list_messages(svc, QUERY, max_results=30)
ListOk ==
    /\ pc = "list"
    /\ \E b \in Batches :
        /\ msgs' = b
        /\ pc' = IF b = <<>> THEN "returned_empty" ELSE "loop"
        /\ at' = IF b = <<>> THEN 0 ELSE 1
    /\ UNCHANGED <<runs, now, store, inbox, ceo_scoreboard, collected_actions,
                   collected_meetings, collected_insights, collected_decisions,
                   err, io, store0, inbox0, extracted, fillvars>>

\* a failed listing that leaves default documents behind
ListFailSaving ==
    /\ pc = "list"
    /\ pc' = "raised"
    /\ err' = "HttpError"
    /\ store' = [n \in DocNames |->
                    File(IF n = "scoreboard.json" THEN EmptyDict ELSE EmptyList)]
    /\ UNCHANGED <<runs, now, inbox, locals, io, store0, inbox0, extracted, fillvars>>

\* the listing or one of the message fetches raises: caught at line 510 and re-raised
ListFail ==
    /\ pc = "list"
    /\ pc' = "raised"
    /\ err' = "HttpError"
    /\ UNCHANGED <<runs, now, store, inbox, locals, io, store0, inbox0, extracted, fillvars>>

\* time passes: seconds while the loop runs, days between two runs
Tick ==
    /\ \/ pc = "loop" /\ now.sec < MaxSec /\ now' = [now EXCEPT !.sec = @ + 1]
       \/ pc \in RunEnded /\ now.day < MaxDay /\ now' = [day |-> now.day + 1, sec |-> 0]
    /\ UNCHANGED <<pc, runs, store, inbox, locals, err, io, store0, inbox0, extracted, fillvars>>

\* _save_json(name, obj) on the archive: the file is opened with "w"
SaveInbox(files, name, doc) ==
    [n \in DOMAIN files \cup {name} |-> IF n = name THEN doc ELSE files[n]]

\* the loop went on to the merges although messages were left
AfterFirstMessage(k, n) == "scoreboard"

\* where the run is after the k-th of n messages: `for m in msgs` goes on to the
\* next message, and to the merges after the last one
AfterMessage(k, n) == IF k = n THEN "scoreboard" ELSE "loop"

\* one iteration of `for m in msgs`, lines 397-427
LoopStep ==
    /\ pc = "loop"
    /\ at <= Len(msgs)
    /\ \E r \in {extracted[msgs[at], now]} :
        /\ inbox' = IF r.saved THEN SaveInbox(inbox, r.name, r.doc) ELSE inbox
        /\ io' = IF r.saved THEN Append(io, "write " \o r.name) ELSE io
        /\ IF r.raise # ""
           THEN /\ pc' = "raised"
                /\ err' = r.raise
                /\ UNCHANGED locals
           ELSE /\ ceo_scoreboard' = IF r.isCeo THEN r.ceo ELSE ceo_scoreboard
                /\ collected_actions' = collected_actions \o r.actions
                /\ collected_meetings' = collected_meetings \o r.meetings
                /\ collected_insights' = collected_insights \o r.insights
                /\ collected_decisions' = collected_decisions \o r.decisions
                /\ at' = at + 1
                /\ pc' = AfterMessage(at, Len(msgs))
                /\ UNCHANGED <<msgs, err>>
    /\ UNCHANGED <<runs, now, store, store0, inbox0, extracted, fillvars>>

\* lines 430-443: the scoreboard is deep-filled from the last executive summary
MergeScoreboard ==
    /\ pc = "scoreboard"
    /\ IF Truthy(ceo_scoreboard)
       THEN LET existing == ReadDoc("scoreboard.json", EmptyDict)
                merged   == _deep_fill(existing, ceo_scoreboard)
            IN  /\ store' = [store EXCEPT !["scoreboard.json"] = File(merged)]
                /\ io' = io \o ReadOps("scoreboard.json") \o <<"write scoreboard.json">>
       ELSE UNCHANGED <<store, io>>
    /\ pc' = "actions"
    /\ UNCHANGED <<runs, now, inbox, locals, err, store0, inbox0, extracted, fillvars>>

\* a.get("title", default)
TitleOf(a, default) == IF "title" \in DOMAIN a.v THEN a.v["title"] ELSE default

\* every collected action is appended, whatever its title
AppendAllActions(existing, titles, todo) == existing \o todo

RECURSIVE DedupeActions(_, _, _)
\* lines 460-464: the actions whose title is not yet in titles are appended
DedupeActions(existing, titles, todo) ==
    IF todo = <<>> THEN existing
    ELSE LET a == Head(todo)
         IN  IF TitleOf(a, JNull) \notin titles
             THEN DedupeActions(Append(existing, a), titles \cup {TitleOf(a, JNull)},
                                Tail(todo))
             ELSE DedupeActions(existing, titles, Tail(todo))

\* the exception of lines 458-464 on an existing document that is no list of
\* objects with hashable titles ("" when there is none)
ActionsError(existing) ==
    IF existing.t \in {"null", "num"} THEN "TypeError"
    ELSE IF existing.t \in {"dict", "str"} THEN "AttributeError"
    ELSE IF \E k \in 1..Len(existing.v) : existing.v[k].t # "dict" THEN "AttributeError"
    ELSE IF \E k \in 1..Len(existing.v) :
                TitleOf(existing.v[k], JStr("")).t \in {"list", "dict"} THEN "TypeError"
    ELSE ""

\* lines 445-467: the collected actions are appended, deduplicated by title
MergeActions ==
    /\ pc = "actions"
    /\ IF collected_actions # <<>>
       THEN LET existing == ReadDoc("actions.json", EmptyList)
                titles   == {TitleOf(existing.v[k], JStr("")) : k \in 1..Len(existing.v)}
            IN  IF ActionsError(existing) # ""
                THEN /\ pc' = "raised"
                     /\ err' = ActionsError(existing)
                     /\ io' = io \o ReadOps("actions.json")
                     /\ UNCHANGED store
                ELSE /\ store' = [store EXCEPT !["actions.json"] =
                                     File(JList(DedupeActions(existing.v, titles,
                                                              collected_actions)))]
                     /\ io' = io \o ReadOps("actions.json") \o <<"write actions.json">>
                     /\ pc' = "meetings"
                     /\ UNCHANGED err
       ELSE /\ pc' = "meetings"
            /\ UNCHANGED <<store, io, err>>
    /\ UNCHANGED <<runs, now, inbox, locals, store0, inbox0, extracted, fillvars>>

\* the collected records put before the existing ones
Prepended(existing, collected) == collected \o existing

\* existing_meetings + collected_meetings
Appended(existing, collected) == existing \o collected

\* the document is written although nothing was collected for it
MergeAppendAlways(name, collected, next) ==
    /\ store' = [store EXCEPT ![name] = File(JList(ReadDoc(name, EmptyList).v \o collected))]
    /\ io' = io \o ReadOps(name) \o <<"write " \o name>>
    /\ pc' = next
    /\ UNCHANGED <<runs, now, inbox, locals, err, store0, inbox0, extracted, fillvars>>

\* lines 469-506: existing + collected is written when anything was collected;
\* existing + collected raises TypeError unless existing is a list
MergeAppend(name, collected, next) ==
    /\ IF collected # <<>>
       THEN LET existing == ReadDoc(name, EmptyList)
            IN  IF existing.t # "list"
                THEN /\ pc' = "raised"
                     /\ err' = "TypeError"
                     /\ io' = io \o ReadOps(name)
                     /\ UNCHANGED store
                ELSE /\ store' = [store EXCEPT ![name] = File(JList(Appended(existing.v, collected)))]
                     /\ io' = io \o ReadOps(name) \o <<"write " \o name>>
                     /\ pc' = next
                     /\ UNCHANGED err
       ELSE /\ pc' = next
            /\ UNCHANGED <<store, io, err>>
    /\ UNCHANGED <<runs, now, inbox, locals, store0, inbox0, extracted, fillvars>>

MergeMeetings ==
    /\ pc = "meetings"
    /\ MergeAppend("meetings.json", collected_meetings, "insights")

MergeInsights ==
    /\ pc = "insights"
    /\ MergeAppend("insights.json", collected_insights, "decisions")

MergeDecisions ==
    /\ pc = "decisions"
    /\ MergeAppend("decisions.json", collected_decisions, "completed")

Next ==
    \/ StartRun
    \/ AuthOk
    \/ AuthFail
    \/ ListOk
    \/ ListFail
    \/ Tick
    \/ LoopStep
    \/ MergeScoreboard
    \/ MergeActions
    \/ MergeMeetings
    \/ MergeInsights
    \/ MergeDecisions

Init ==
    /\ extracted = Iterations
    /\ pc = "idle"
    /\ runs = 0
    /\ now = [day |-> 0, sec |-> 0]
    /\ store \in {[n \in DocNames |-> Absent],
                  [n \in DocNames |->
                      File(IF n = "scoreboard.json" THEN EmptyDict ELSE EmptyList)]}
    /\ inbox = <<>>
    /\ msgs = <<>>
    /\ at = 0
    /\ ceo_scoreboard = JNull
    /\ collected_actions = <<>>
    /\ collected_meetings = <<>>
    /\ collected_insights = <<>>
    /\ collected_decisions = <<>>
    /\ err = ""
    /\ io = <<>>
    /\ store0 = store
    /\ inbox0 = inbox
    /\ FillIdle

Spec == Init /\ [][Next]_vars

\* the documents of DATA_DIR damaged: not JSON, or JSON of another shape (a list
\* for the scoreboard, an object for a collection)
Corrupt(n) ==
    {Invalid, File(IF n = "scoreboard.json" THEN JList(<<JInt(1)>>) ELSE EmptyDict)}

\* one run over damaged documents
InitCorrupt ==
    /\ extracted = Iterations
    /\ pc = "idle"
    /\ runs = MaxRuns - 1
    /\ now = [day |-> 0, sec |-> 0]
    /\ store \in {f \in [DocNames -> UNION {Corrupt(n) : n \in DocNames}] :
                    \A n \in DocNames : f[n] \in Corrupt(n)}
    /\ inbox = <<>>
    /\ msgs = <<>>
    /\ at = 0
    /\ ceo_scoreboard = JNull
    /\ collected_actions = <<>>
    /\ collected_meetings = <<>>
    /\ collected_insights = <<>>
    /\ collected_decisions = <<>>
    /\ err = ""
    /\ io = <<>>
    /\ store0 = store
    /\ inbox0 = inbox
    /\ FillIdle

SpecCorrupt == InitCorrupt /\ [][Next]_vars

\* _deep_fill applied to every pair of bounded records
InitFill ==
    /\ extracted = <<>>
    /\ pc = "off"
    /\ runs = 0
    /\ now = [day |-> 0, sec |-> 0]
    /\ store = [n \in DocNames |-> Absent]
    /\ inbox = <<>>
    /\ msgs = <<>>
    /\ at = 0
    /\ ceo_scoreboard = JNull
    /\ collected_actions = <<>>
    /\ collected_meetings = <<>>
    /\ collected_insights = <<>>
    /\ collected_decisions = <<>>
    /\ err = ""
    /\ io = <<>>
    /\ store0 = store
    /\ inbox0 = inbox
    /\ fill_pc = "in"
    /\ fill_dst \in FillDocs
    /\ fill_src \in FillDocs
    /\ fill_out = JNull
    /\ fill_out2 = JNull
    /\ call = "off"
    /\ arg = JNull
    /\ ret = JNull

NextFill == FillOnce \/ FillTwice

SpecFill == InitFill /\ [][NextFill]_vars

\* ------------------------------------------------- the functions on their own

MaxCount == 2

MaxLines == 2

RECURSIVE JoinLines(_)
\* "\n".join(ls)
JoinLines(ls) ==
    IF Len(ls) = 0 THEN ""
    ELSE IF Len(ls) = 1 THEN ls[1]
    ELSE ls[1] \o "\n" \o JoinLines(Tail(ls))

\* the texts of one to MaxLines lines of L, with and without a final line end
TextsOf(L) ==
    UNION {{JoinLines(ls), JoinLines(ls) \o "\n"} :
              ls \in SeqsUpTo(L, MaxLines) \ {<<>>}}

\* payload trees: nodes with and without body bytes, alone and as the parts of
\* multipart nodes, at most two levels of parts deep
Payloads ==
    LET leaves == {Node("text/plain", B64(<<"plain body">>), <<>>),
                   Node("text/plain", NoData, <<>>),
                   Node("text/html", B64(<<"<p>html body</p>">>), <<>>),
                   Node("text/html", NoData, <<>>),
                   Node("image/png", B64(<<"png">>), <<>>)}
        Multi(S) == {Node("multipart/alternative", NoData, ps) :
                        ps \in SeqsUpTo(S, MaxLines) \ {<<>>}}
    IN  leaves \cup Multi(leaves)
            \cup {Node("multipart/mixed", NoData, <<a, b>>) :
                     a \in Multi(leaves), b \in leaves}

\* executive summaries: a theme line, then a severity on two lines or the risk
\* line of the docstring (its bullets written "*")
CeoTexts ==
    {"Top theme: Pricing\n" \o w \o " " \o NatStr(a) \o "\n" \o w \o " " \o NatStr(b) :
        w \in {"High", "Medium"}, a \in 0..MaxCount, b \in 0..MaxCount}
    \cup {"Top theme: Pricing\nRisk: High " \o NatStr(h) \o " * Medium " \o NatStr(m)
              \o " * Next deadline " \o NatStr(d) \o "h" :
             h \in 0..MaxCount, m \in 0..MaxCount, d \in 0..MaxCount}

\* content digests
ContentTexts ==
    TextsOf({"Top Piece: \"Launch post\"", "Action: Refresh landing page.",
             "LinkedIn ER +19%", "LinkedIn ER +5%", "Email CTR +11%",
             "Persona: VS 3x > RL", "Persona: Architect lagging", "Paid: 4",
             "Summary of the week"})

\* operational reports
OperationalTexts == TextsOf({"Bottleneck: review queue", "Owner: ops", "Status ok"})

\* messages whose subjects name none, one or several of the categories; the
\* body holds a line for every extractor
SubjectMsgs ==
    {Plain("s", subject,
           "Top theme: Pricing\nAutonomy: 90%\nAction: Refresh landing page\nBottleneck: review queue\n") :
        subject \in {"Hello", "CEO Summary", "Weekly Content Digest", "Workflow",
                     "CEO oversight of the content report", "Marketing summary: bottleneck",
                     "Executive summary of operations",
                     "CEO summary, content digest and process"}}

\* the function f is applied to the argument and has returned result
Apply(f, result) ==
    /\ call = "in"
    /\ arg.f = f
    /\ ret' = result
    /\ call' = "out"
    /\ UNCHANGED <<arg, fill_pc, fill_dst, fill_src, fill_out, fill_out2>>
    /\ UNCHANGED runvars

ParseBody == Apply("_parse_body", _parse_body(arg.x))

MapCeo == Apply("map_ceo_to_scoreboard", map_ceo_to_scoreboard(arg.x, now))

MapContent == Apply("map_content_to_actions", map_content_to_actions(arg.x, now))

MapOperational ==
    Apply("map_operational_to_insights", map_operational_to_insights(arg.x, now))

\* one iteration of the message loop on the message
Classify == Apply("Iteration", Iteration(arg.x, now))

InitCall ==
    /\ extracted = <<>>
    /\ pc = "off"
    /\ runs = 0
    /\ now = [day |-> 0, sec |-> 0]
    /\ store = [n \in DocNames |-> Absent]
    /\ inbox = <<>>
    /\ msgs = <<>>
    /\ at = 0
    /\ ceo_scoreboard = JNull
    /\ collected_actions = <<>>
    /\ collected_meetings = <<>>
    /\ collected_insights = <<>>
    /\ collected_decisions = <<>>
    /\ err = ""
    /\ io = <<>>
    /\ store0 = store
    /\ inbox0 = inbox
    /\ fill_pc = "off"
    /\ fill_dst = JNull
    /\ fill_src = JNull
    /\ fill_out = JNull
    /\ fill_out2 = JNull
    /\ call = "in"
    /\ arg \in {[f |-> "_parse_body", x |-> p] : p \in Payloads}
                \cup {[f |-> "map_ceo_to_scoreboard", x |-> t] : t \in CeoTexts}
                \cup {[f |-> "map_content_to_actions", x |-> t] : t \in ContentTexts}
                \cup {[f |-> "map_operational_to_insights", x |-> t] : t \in OperationalTexts}
                \cup {[f |-> "Iteration", x |-> m] : m \in SubjectMsgs}
    /\ ret = JNull

NextCall ==
    \/ ParseBody
    \/ MapCeo
    \/ MapContent
    \/ MapOperational
    \/ Classify

SpecCall == InitCall /\ [][NextCall]_vars

\* ------------------------------------------------- properties of _deep_fill

\* the field paths of the bounded records: a top-level key, or a key of group "b"
FillPaths == {<<"a">>, <<"b">>, <<"b", "a">>}

\* the path p is present in the record d
HasPath(d, p) ==
    /\ p[1] \in DOMAIN d.v
    /\ Len(p) = 2 => d.v[p[1]].t = "dict" /\ p[2] \in DOMAIN d.v[p[1]].v

\* the value of the record d at the path p
AtPath(d, p) == IF Len(p) = 1 THEN d.v[p[1]] ELSE d.v[p[1]].v[p[2]]

IsScalar(x) == x.t \in {"null", "str", "num"}

\* a list leaf keeps the existing list e when it is non-empty and is the new list
\* n otherwise
ListRule(e, n, r) == e.t = "list" /\ n.t = "list" => r = IF e.v # <<>> THEN e ELSE n

\* two groups merge into a group over the keys of both; a key of one side only
\* keeps its value
GroupRule(e, n, r) ==
    e.t = "dict" /\ n.t = "dict" =>
        /\ r.t = "dict"
        /\ DOMAIN r.v = DOMAIN e.v \cup DOMAIN n.v
        /\ \A k \in DOMAIN e.v \ DOMAIN n.v : r.v[k] = e.v[k]
        /\ \A k \in DOMAIN n.v \ DOMAIN e.v : r.v[k] = n.v[k]

\* the three values e (existing), n (new) and r (result) at one path; filling
\* tells how two scalars combine: the new value only when the existing one is
\* default and the new one is not (TRUE), or the new value whenever the existing
\* one is default (FALSE)
LeafRule(e, n, r, filling) ==
    /\ IsScalar(e) /\ IsScalar(n) =>
          r = IF IsDefault(e) /\ (~filling \/ ~IsDefault(n)) THEN n ELSE e
    /\ ListRule(e, n, r)
    /\ GroupRule(e, n, r)

\* every path present in the existing and in the new record is present in the
\* result, and LeafRule relates the three values there
FillRule(filling) ==
    /\ GroupRule(fill_dst, fill_src, fill_out)
    /\ \A p \in FillPaths :
          HasPath(fill_dst, p) /\ HasPath(fill_src, p) =>
              /\ HasPath(fill_out, p)
              /\ LeafRule(AtPath(fill_dst, p), AtPath(fill_src, p), AtPath(fill_out, p),
                          filling)

\* C3 as worded: after one merge _deep_fill(existing, new), at every path present
\* in both records a scalar leaf of the result is the existing value when that is
\* non-default and the new value otherwise, a list leaf is the existing list when
\* non-empty and the new list otherwise, and groups are merged recursively.
C3_AsWorded == fill_pc = "once" => FillRule(FALSE)

\* C3 amended: as above, except that a scalar leaf of the result is the new value
\* only when the existing value is default (null, "", 0) and the new value is not;
\* when both are default the existing value stays.
C3_DeepFillLeaves == fill_pc = "once" => FillRule(TRUE)

\* the example of the claim: new {a:0, b:"x"} merged into existing {a:5, b:""}
\* has given {a:5, b:"x"}
C3_Example ==
    /\ fill_pc = "once"
    /\ fill_dst = JDict([a |-> JInt(5), b |-> JStr("")])
    /\ fill_src = JDict([a |-> JInt(0), b |-> JStr("x")])
    /\ fill_out = JDict([a |-> JInt(5), b |-> JStr("x")])

\* C4: deep-fill is idempotent: merging the new document N into the result of
\* merging N into the existing document E gives that result again.
C4_Idempotent == fill_pc = "twice" => fill_out2 = fill_out

\* a second merge of a new document that changed the existing one the first time
C4_MergedTwice ==
    /\ fill_pc = "twice"
    /\ fill_out # fill_dst
    /\ fill_src.v # <<>>
    /\ \E p \in FillPaths : HasPath(fill_out, p) /\ AtPath(fill_out, p).t = "list"

\* ------------------------------------------------- properties of a run

\* the records of the document name before the run ([] when there was none)
Prior(name) == IF store0[name].k = "json" THEN store0[name].v.v ELSE <<>>

\* the records of the stored document name
Stored(name) == store[name].v.v

\* the titles of a sequence of records
Titles(rs) == {TitleOf(rs[k], JNull) : k \in 1..Len(rs)}

\* how many records of rs carry the title t
TitleCount(rs, t) == Cardinality({k \in 1..Len(rs) : TitleOf(rs[k], JNull) = t})

\* the elements of the sequence rs at the indexes of S, in order
Picked(rs, S) ==
    LET F[i \in 0..Len(rs)] ==
            IF i = 0 THEN <<>> ELSE IF i \in S THEN Append(F[i - 1], rs[i]) ELSE F[i - 1]
    IN  F[Len(rs)]

\* the indexes of the collected records whose title is neither among the prior
\* titles nor carried by an earlier collected record
FirstNew(prior, rs) ==
    {k \in 1..Len(rs) :
        /\ TitleOf(rs[k], JNull) \notin Titles(prior)
        /\ \A j \in 1..(k - 1) : TitleOf(rs[j], JNull) # TitleOf(rs[k], JNull)}

\* C1: starting from an absent or empty actions document, after any sequence of
\* runs no two actions stored in actions.json have the same title.
C1_UniqueTitles ==
    store["actions.json"].k = "json" =>
        \A j, k \in 1..Len(Stored("actions.json")) :
            j # k => TitleOf(Stored("actions.json")[j], JNull)
                        # TitleOf(Stored("actions.json")[k], JNull)

\* a second run has collected, twice in its batch, a title that an earlier run
\* stored, and the title is stored once
C1_TitleSeenAgain ==
    /\ pc = "completed"
    /\ \E t \in Titles(Prior("actions.json")) :
          /\ TitleCount(collected_actions, t) >= 2
          /\ TitleCount(Stored("actions.json"), t) = 1

\* the scoreboard document of the store s ({} when there is none)
ScoreboardAt(s) ==
    IF s["scoreboard.json"].k = "json" THEN s["scoreboard.json"].v ELSE EmptyDict

\* the populated leaves of the record d, each with its path: top-level fields
\* and the fields of the groups
Populated(d) ==
    {<<<<k>>, d.v[k]>> : k \in {k \in DOMAIN d.v : d.v[k].t # "dict" /\ ~IsDefault(d.v[k])}}
    \cup UNION {{<<<<g, k>>, d.v[g].v[k]>> :
                    k \in {k \in DOMAIN d.v[g].v : ~IsDefault(d.v[g].v[k])}} :
                g \in {g \in DOMAIN d.v : d.v[g].t = "dict"}}

\* C2: once a leaf of the persisted scoreboard holds a non-default value, no
\* later step (and so no later deep-fill merge) changes the value of that field.
C2_PopulatedKept ==
    [][Populated(ScoreboardAt(store)) \subseteq Populated(ScoreboardAt(store'))]_vars

\* a later run has merged an extraction that differs from a populated stored
\* field and fills a field that was still default
C2_LaterExtraction ==
    /\ pc = "actions"
    /\ store0["scoreboard.json"].k = "json"
    /\ Truthy(ceo_scoreboard)
    /\ \E e \in Populated(ScoreboardAt(store0)) :
          /\ e \notin Populated(ceo_scoreboard)
          /\ e[1] \in {x[1] : x \in Populated(ceo_scoreboard)}
    /\ Populated(ScoreboardAt(store)) # Populated(ScoreboardAt(store0))

\* C5: an archive write never overwrites an archive document: after the message
\* loop the archive holds one document per retrieved message on top of those it
\* held before the run, and every earlier archive document is unchanged.
C5_ArchiveAppendOnly ==
    pc = "scoreboard" =>
        /\ Cardinality(DOMAIN inbox) = Cardinality(DOMAIN inbox0) + Len(msgs)
        /\ \A n \in DOMAIN inbox0 : inbox[n] = inbox0[n]

\* C6: for each of the collections that a completed run wrote, the stored
\* sequence is the previously stored sequence followed by the collected records
\* in order; for actions, by the collected records whose title was not yet present.
C6_AppendedInOrder ==
    pc = "completed" =>
        /\ collected_actions # <<>> =>
              Stored("actions.json") =
                  Prior("actions.json")
                      \o Picked(collected_actions,
                                FirstNew(Prior("actions.json"), collected_actions))
        /\ collected_meetings # <<>> =>
              Stored("meetings.json") = Prior("meetings.json") \o collected_meetings
        /\ collected_insights # <<>> =>
              Stored("insights.json") = Prior("insights.json") \o collected_insights
        /\ collected_decisions # <<>> =>
              Stored("decisions.json") = Prior("decisions.json") \o collected_decisions

\* a run has added records after stored ones, has left out an action whose title
\* was present, and has stored a meeting a second time
C6_AddedToStored ==
    /\ pc = "completed"
    /\ Prior("actions.json") # <<>>
    /\ Len(Stored("actions.json")) > Len(Prior("actions.json"))
    /\ Len(Stored("actions.json")) < Len(Prior("actions.json")) + Len(collected_actions)
    /\ \E k \in 1..Len(collected_meetings) :
          \E j \in 1..Len(Prior("meetings.json")) :
              collected_meetings[k] = Prior("meetings.json")[j]

\* the file operations on the structured documents
StructuredOps == {"read " \o n : n \in DocNames} \cup {"write " \o n : n \in DocNames}

\* the positions of the archive writes in the operations of the run
ArchiveWrites == {j \in 1..Len(io) : Slice(io[j], 1, 12) = "write inbox/"}

\* C7: in every run the structured documents are read and written only after the
\* whole message loop: no read or write of one precedes the archive write of any
\* message of the batch, and each is written at most once per run.
C7_MergeAfterLoop ==
    /\ \A i \in 1..Len(io) :
          io[i] \in StructuredOps =>
              /\ at > Len(msgs)
              /\ Cardinality(ArchiveWrites) = Len(msgs)
              /\ \A j \in ArchiveWrites : j < i
    /\ \A n \in DocNames : Cardinality({i \in 1..Len(io) : io[i] = "write " \o n}) <= 1

\* a run over two messages has read and written stored documents
C7_MergedAfterTwo ==
    /\ pc = "completed"
    /\ Len(msgs) = 2
    /\ Cardinality({i \in 1..Len(io) : \E n \in DocNames : io[i] = "write " \o n}) >= 3
    /\ \E i \in 1..Len(io) : \E n \in DocNames : io[i] = "read " \o n

\* C8: when authentication or the listing of the messages fails, the run ends
\* without merging: none of the five structured documents is written or changed.
C8_FailureWritesNothing ==
    pc = "returned_auth" \/ (pc = "raised" /\ err = "HttpError") =>
        /\ store = store0
        /\ \A i \in 1..Len(io) : io[i] \notin StructuredOps

\* the listing has failed in a run that found documents with records, some of
\* them still absent
C8_ListingFailed ==
    /\ pc = "raised"
    /\ err = "HttpError"
    /\ store["actions.json"].k = "json"
    /\ Stored("actions.json") # <<>>
    /\ \E n \in DocNames : store[n].k = "absent"

\* the bodies of the message m: its own and those of its parts
BodiesOf(m) == {m.payload.data} \cup {m.payload.parts[k].data : k \in 1..Len(m.payload.parts)}

\* a body of the message m is no valid base64 or holds bytes that are no UTF-8
Undecodable(m) ==
    \E d \in BodiesOf(m) : d.enc = "bad" \/ \E k \in 1..Len(d.bytes) : d.bytes[k] = BadByte

\* C9: a message whose body cannot be decoded is not fatal: the run is not
\* ended by that message, and once the loop has passed it the message has been
\* archived like the messages before it.
C9_UndecodableNotFatal ==
    \A k \in 1..Len(msgs) :
        Undecodable(msgs[k]) =>
            /\ ~(pc = "raised" /\ at = k)
            /\ at > k => Cardinality(ArchiveWrites) >= k

\* C10: at merge time a document that is missing, not JSON or of another shape
\* is treated as absent: reading it raises nothing, and a completed run has
\* written every document it has records for over the default ({} or []).
C10_CorruptAsAbsent ==
    /\ pc = "raised" => err \notin {"TypeError", "AttributeError"}
    /\ pc = "completed" =>
          /\ Truthy(ceo_scoreboard) => store["scoreboard.json"] = File(ceo_scoreboard)
          /\ collected_actions # <<>> =>
                store["actions.json"] =
                    File(JList(Picked(collected_actions, FirstNew(<<>>, collected_actions))))
          /\ collected_meetings # <<>> =>
                store["meetings.json"] = File(JList(collected_meetings))
          /\ collected_insights # <<>> =>
                store["insights.json"] = File(JList(collected_insights))
          /\ collected_decisions # <<>> =>
                store["decisions.json"] = File(JList(collected_decisions))

\* the paths of the populated leaves of the record d
PopulatedPaths(d) == {e[1] : e \in Populated(d)}

\* the scoreboard that the k-th message of the batch yields
ExtractionOf(k) == extracted[msgs[k], now].ceo

\* C11: when a batch holds several executive summaries, the extraction of every
\* one of them takes part in the merge: a field populated in the extraction of
\* an earlier message, and default in the stored scoreboard and in the
\* extractions of the later messages, is populated in the scoreboard persisted
\* by the run.
C11_EverySummaryMerged ==
    pc = "actions" =>
        \A k \in 1..Len(msgs) :
            extracted[msgs[k], now].isCeo =>
                \A p \in PopulatedPaths(ExtractionOf(k)) :
                    (/\ p \notin PopulatedPaths(ScoreboardAt(store0))
                     /\ \A j \in (k + 1)..Len(msgs) :
                           extracted[msgs[j], now].isCeo =>
                               p \notin PopulatedPaths(ExtractionOf(j)))
                    => p \in PopulatedPaths(ScoreboardAt(store))

\* the batch has produced a record for the document n
HasRecords(n) ==
    CASE n = "scoreboard.json" -> Truthy(ceo_scoreboard)
      [] n = "actions.json" -> collected_actions # <<>>
      [] n = "meetings.json" -> collected_meetings # <<>>
      [] n = "insights.json" -> collected_insights # <<>>
      [] n = "decisions.json" -> collected_decisions # <<>>

\* C18: a run writes a structured document only if the batch produced a record
\* for it: a document without records is not written and is, when the run has
\* completed, exactly as it was before the run; a run that retrieves no message
\* writes no file, archive included.
C18_WritesOnlyWithRecords ==
    /\ \A n \in DocNames :
          ~HasRecords(n) =>
              /\ \A i \in 1..Len(io) : io[i] # "write " \o n
              /\ pc = "completed" => store[n] = store0[n]
    /\ pc = "returned_empty" => store = store0 /\ inbox = inbox0 /\ io = <<>>

\* a completed run over messages of one category has written the documents of
\* that category and left the other documents absent
C18_OnlyOperationalWritten ==
    /\ pc = "completed"
    /\ collected_insights # <<>>
    /\ store["insights.json"].k = "json"
    /\ collected_actions = <<>>
    /\ collected_meetings = <<>>
    /\ store["actions.json"] = Absent
    /\ store["meetings.json"] = Absent
    /\ store["scoreboard.json"] = Absent


\* ------------------------------------------------- properties of the functions

Returned(f) == call = "out" /\ arg.f = f

\* the lowercased subject holds one of the phrases
SubjectHas(m, phrases) == \E p \in phrases : Contains(Lower(_headers(m).subject), p)

DepthsOf(p, mime) ==
    LET Is(n) == Contains(n.mimeType, mime) /\ n.data.enc = "ok"
        Level1 == {p.parts[i] : i \in 1..Len(p.parts)}
        Level2 == UNION {{n.parts[i] : i \in 1..Len(n.parts)} : n \in Level1}
    IN  {d \in 0..2 : \E n \in (CASE d = 0 -> {p} [] d = 1 -> Level1 [] d = 2 -> Level2) : Is(n)}

\* C13: when a payload tree holds a text/html node and a text/plain node that
\* both carry body bytes, and the text/html node is no deeper than the
\* text/plain node, _parse_body returns the content of the text/html node.
C13_HtmlPreferred ==
    Returned("_parse_body") =>
        LET html == DepthsOf(arg.x, "text/html")
            plain == DepthsOf(arg.x, "text/plain")
        IN  (html # {} /\ plain # {} /\ Min(html) <= Min(plain)) =>
                ret.html = "<p>html body</p>"

\* the integers on the lines "<word> a" and "<word> b" that follow the theme line
CountsOn(text, word) ==
    {ToNat(From(l, Len(word) + 2)) :
        l \in {splitlines(text)[i] : i \in 2..Len(splitlines(text))}}

\* the text has the severity word on two lines, each with its integer
TwoLines(text, word) ==
    /\ Len(splitlines(text)) = 3
    /\ \A i \in 2..3 : Slice(splitlines(text)[i], 1, Len(word) + 1) = word \o " "

\* C14: when "high" (likewise "medium") stands on more than one line of an
\* executive summary, the risk count extracted for that severity is the
\* largest of the integers on those lines.
C14_MaxOverLines ==
    Returned("map_ceo_to_scoreboard") =>
        /\ TwoLines(arg.x, "High") =>
               ret.v.risk.v.high = JInt(Max(CountsOn(arg.x, "High")))
        /\ TwoLines(arg.x, "Medium") =>
               ret.v.risk.v.medium = JInt(Max(CountsOn(arg.x, "Medium")))

\* the risk line of the docstring of map_ceo_to_scoreboard, after a theme line
RiskLine(h, m, d) ==
    "Top theme: Pricing\nRisk: High " \o NatStr(h) \o " * Medium " \o NatStr(m)
        \o " * Next deadline " \o NatStr(d) \o "h"

\* C16: from the documented line 'Risk: High h * Medium m * Next deadline dh'
\* each risk field takes the number that follows its own keyword: high is h,
\* medium is m and next_deadline_hours is d.
C16_EachFieldItsNumber ==
    Returned("map_ceo_to_scoreboard") =>
        \A h, m, d \in 0..MaxCount :
            arg.x = RiskLine(h, m, d) =>
                /\ ret.v.risk.v.high = JInt(h)
                /\ ret.v.risk.v.medium = JInt(m)
                /\ ret.v.risk.v.next_deadline_hours = JInt(d)

\* the text has a line that starts with the label
HasLabelled(text, label) ==
    \E i \in 1..Len(splitlines(text)) :
        Slice(splitlines(text)[i], 1, Len(label)) = label

\* C15: map_operational_to_insights gives exactly one insight and exactly one
\* decision when the text has a "Bottleneck:" line, wherever the line stands
\* (the last line without a line end included), and none of either otherwise.
C15_OnePerBottleneck ==
    Returned("map_operational_to_insights") =>
        IF HasLabelled(arg.x, "Bottleneck:")
        THEN Len(ret.insights) = 1 /\ Len(ret.decisions) = 1
        ELSE ret.insights = <<>> /\ ret.decisions = <<>>

\* the lines of the text that start with the "Action:" label
ActionLineNos(text) ==
    {i \in 1..Len(splitlines(text)) : Slice(splitlines(text)[i], 1, 7) = "Action:"}

\* the first line naming the channel has a lift of at least floor percent
HasLift(text, channel, floor) ==
    /\ ~_percent(_find_line(text, channel)).neg
    /\ _percent(_find_line(text, channel)).ip >= floor

\* the first persona line names VS
FavoursVS(text) == HasWordVS(_find_line(text, {"persona"}))

\* the first persona line names Architect and the text counts no paid conversion
ArchitectGap(text) ==
    /\ Contains(Lower(_find_line(text, {"persona"})), "architect")
    /\ ~HasPaidCount(text)

\* the action of this title comes from a source found in the text; the two
\* persona sources count only when persona is TRUE
Sourced(title, text, persona) ==
    \/ /\ _find_line(text, {"top piece"}) # ""
       /\ Slice(title, 1, 19) = "Amplify Top Piece: "
    \/ \E i \in ActionLineNos(text) : Contains(splitlines(text)[i], title)
    \/ /\ HasLift(text, {"linkedin", "er"}, LinkedInLift)
       /\ title = "Double LinkedIn cadence for 72h (winning theme)"
    \/ /\ HasLift(text, {"email", "ctr"}, EmailLift)
       /\ title = "Extend winning email subject to VS segment"
    \/ /\ persona
       /\ FavoursVS(text)
       /\ title = "Prioritize VS persona content for 72h"
    \/ /\ persona
       /\ ArchitectGap(text)
       /\ title = "Draft Architect brief (fast-track)"

\* the number of actions the sources of the text account for
SourceCount(text) ==
    LET One(b) == IF b THEN 1 ELSE 0
    IN  One(_find_line(text, {"top piece"}) # "")
            + Cardinality(ActionLineNos(text))
            + One(HasLift(text, {"linkedin", "er"}, LinkedInLift))
            + One(HasLift(text, {"email", "ctr"}, EmailLift))
            + One(FavoursVS(text))
            + One(ArchitectGap(text))

====
